---------------------------- MODULE Spec2Model ----------------------------
(***************************************************************************)
(* A model of the MeiGalaxy Godot node (src/mei-godot/src/galaxy.rs): the  *)
(* session (seed, optional engine binding), its setters and getters, and   *)
(* the three projections get_structure, get_nearby_stars(_limited) and     *)
(* get_star_system.                                                        *)
(*                                                                         *)
(* Numbers.  64-bit integers are modelled with IntBits bits (two's         *)
(* complement for i64, modulo 2^IntBits for u64 and usize).  An f64 is     *)
(* modelled as an integer counting steps of the f64 grid; the f32 grid is  *)
(* twice as coarse, so narrowing (`as f32`) rounds to a multiple of two,   *)
(* ties to the even mantissa.                                              *)
(*                                                                         *)
(* The generation engine (crate `mei`) is not part of this repository's    *)
(* sources.  It is modelled as a deterministic function of the seed, the   *)
(* configuration and the query, following the contract the specification   *)
(* gives for it.                                                           *)
(***************************************************************************)
EXTENDS Integers, Sequences, FiniteSets, TLC

(***************************************************************************)
(* Bounds of the model.                                                    *)
(***************************************************************************)
IntBits == 16
NumStars == 4
MaxInst == 2

(***************************************************************************)
(* Program constants.                                                      *)
(***************************************************************************)
DefaultNearbyMaxRadius == 16
DefaultNearbyMaxStars == 10000
EstimateReferenceRadius == 500

(***************************************************************************)
(* Integer widths and the `as` conversions of the source.                  *)
(***************************************************************************)
U64Mod == 2 ^ IntBits
I64Max == 2 ^ (IntBits - 1) - 1
I64Min == 0 - 2 ^ (IntBits - 1)

\* `v as u64` / `v as usize` for an i64 v: reinterpretation modulo 2^w.
AsU64(v) == v % U64Mod

\* `v as i64` for a u64 / usize v: reinterpretation as two's complement.
AsI64(v) == IF v > I64Max THEN v - U64Mod ELSE v

\* `v as i64` for an f64 v: truncation (the model's f64 are whole), saturating.
F64AsI64(v) == IF v > I64Max THEN I64Max ELSE IF v < I64Min THEN I64Min ELSE v

\* `v as f32` for an f64 v: round to the coarser grid, ties to even.
AsF32(v) ==
    LET q == v \div 2
        r == v % 2
    IN  IF r = 0 THEN v
        ELSE IF q % 2 = 0 THEN 2 * q ELSE 2 * (q + 1)

Min(a, b) == IF a <= b THEN a ELSE b

\* f64::min of the source (no NaN in the model).
F64Min(a, b) == IF a <= b THEN a ELSE b

\* Option<T>: None is the empty sequence, Some(v) the one-element sequence.
None == << >>
Some(v) == << v >>
IsSome(o) == Len(o) = 1
Unwrap(o) == o[1]

\* A Godot Dictionary is a function from its keys; Dictionary::new() has none.
EmptyDictionary == << >>
\* The return value of a method that returns ().
Unit == << >>

Vec3(x, y, z) == [x |-> x, y |-> y, z |-> z]

(***************************************************************************)
(* The generation engine: stars.                                           *)
(***************************************************************************)
NumStarTypes == 3

\* format!("{:?}", star_type): the variant's name.
StarTypeDebug(t) ==
    CASE t = 0 -> "RedDwarf"
      [] t = 1 -> "MainSequence"
      [] t = 2 -> "BlueGiant"

\* StarType::luminosity(): a function of the type alone.
StarTypeLuminosity(t) ==
    CASE t = 0 -> 1
      [] t = 1 -> 10
      [] t = 2 -> 201

\* StarType::temperature(): a function of the type alone.
StarTypeTemperature(t) ==
    CASE t = 0 -> 3001
      [] t = 1 -> 5800
      [] t = 2 -> 9003

\* Star::luminosity(): a function of the star's type and mass.
StarLuminosity(star) == StarTypeLuminosity(star.star_type) * star.mass * star.mass

\* Star::temperature(): a function of the star's type and mass.
StarTemperature(star) == StarTypeTemperature(star.star_type) + 100 * (star.mass - 1)

StarPosX(i) ==
    CASE i = 1 -> 3
      [] i = 2 -> 0 - 5
      [] i = 3 -> 0
      [] OTHER -> 5 * i

StarPosY(i) ==
    CASE i = 1 -> 4
      [] i = 3 -> 12
      [] OTHER -> 0

\* The i-th star of the galaxy generated from seed s (a u64).
StarAt(s, i) ==
    [ id        |-> IF i % 2 = 1 THEN (8 * s + i) % U64Mod
                    ELSE (U64Mod - ((8 * s + i) % U64Mod)) % U64Mod,
      position  |-> Vec3(StarPosX(i), StarPosY(i), s % 2),
      mass      |-> 1 + ((s + i) % 3),
      star_type |-> (s + 2 * i) % NumStarTypes ]

Catalog(s) == [i \in 1..NumStars |-> StarAt(s, i)]

\* GeneratorConfig::default().
DefaultConfig ==
    [ nearby_max_radius           |-> DefaultNearbyMaxRadius,
      structure_block_size        |-> 100,
      structure_samples_per_block |-> 4 ]

\* GalaxyAPI::new_with_config(seed, config), as instance number inst.
NewWithConfig(inst, s, config) ==
    [ inst   |-> inst,
      seed   |-> s,
      config |-> config,
      radius |-> 50000 + (s % 7) ]

\* GalaxyAPI::new(seed), as instance number inst.
New(inst, s) == NewWithConfig(inst, s, DefaultConfig)

SubSeqTo(seq, n) == SubSeq(seq, 1, Min(n, Len(seq)))

\* generator.get_galactic_structure(max_stars): at most max_stars stars,
\* in the engine's own deterministic order.
GeneratorGetGalacticStructure(api, max_stars) == SubSeqTo(Catalog(api.seed), max_stars)

\* generator.estimate_total_stars(radius): the density model's estimate.
GeneratorEstimateTotalStars(api, radius) == NumStars + (radius \div 100) * (1 + (api.seed % 5))

Dist2(p, q) ==
    (p.x - q.x) * (p.x - q.x) + (p.y - q.y) * (p.y - q.y) + (p.z - q.z) * (p.z - q.z)

\* a comes before b in the order by distance from c, ties by identifier.
Nearer(c, a, b) ==
    \/ Dist2(a.position, c) < Dist2(b.position, c)
    \/ Dist2(a.position, c) = Dist2(b.position, c) /\ a.id < b.id

RECURSIVE SortByDistance(_, _)
SortByDistance(c, stars) ==
    IF stars = {} THEN << >>
    ELSE LET first == CHOOSE a \in stars : \A b \in stars \ {a} : Nearer(c, a, b)
         IN  << first >> \o SortByDistance(c, stars \ {first})

\* generator.get_nearby_stars(position, radius, max_stars): the stars within
\* the radius it is handed, nearest first, at most max_stars of them.
GeneratorGetNearbyStars(api, position, radius, max_stars) ==
    LET cat == Catalog(api.seed)
        inside == { cat[i] : i \in { j \in 1..NumStars :
                        radius >= 0 /\ Dist2(cat[j].position, position) <= radius * radius } }
    IN  SubSeqTo(SortByDistance(position, inside), max_stars)

(***************************************************************************)
(* Configuration files.  GeneratorConfig::load_from_file returns a         *)
(* GeneratorConfig by value (galaxy.rs:78-81 reads its fields directly),   *)
(* so for a source it cannot read or parse it can only panic or hand back  *)
(* a fallback configuration; both outcomes are modelled.                   *)
(***************************************************************************)
GoodPaths == { "res://config/galaxy.toml" }
BadPaths == { "res://config/missing.toml", "res://config/broken.toml" }
ConfigPaths == GoodPaths \cup BadPaths

\* What a readable, well-formed file holds.
FileConfig(path) ==
    [ nearby_max_radius |-> 32, structure_block_size |-> 250,
      structure_samples_per_block |-> 2 ]

\* The outcomes of GeneratorConfig::load_from_file(path).
LoadFromFile(path) ==
    IF path \in GoodPaths
    THEN { [ panicked |-> FALSE, config |-> FileConfig(path) ] }
    ELSE { [ panicked |-> TRUE,  config |-> DefaultConfig ],
           [ panicked |-> FALSE, config |-> DefaultConfig ] }

(***************************************************************************)
(* Inputs of the calls.                                                    *)
(***************************************************************************)
SeedInputs == { 0 - 1, 0 }
RadiusInputs == { 5, 16, 50 }
MaxRadiusInputs == { 8, 32 }
BlockSizeInputs == { 250 }
SamplesInputs == { 0 - 1 }
MaxStarsInputs == { 0 - 1, 0, 2, DefaultNearbyMaxStars }
Centers == { Vec3(0, 0, 0), Vec3(3, 0, 0) }

(***************************************************************************)
(* The state.                                                              *)
(*   seed      MeiGalaxy.seed                                              *)
(*   api       MeiGalaxy.api : Option<GalaxyAPI>                           *)
(*   nextInst  the number the next constructed GalaxyAPI gets              *)
(*   call      the last method called, with its arguments                  *)
(*   result    what it returned                                            *)
(*   log       what it wrote to the Godot console                          *)
(*   engine    the calls it made to the bound engine                       *)
(***************************************************************************)
VARIABLES seed, api, nextInst, call, result, log, engine

vars == << seed, api, nextInst, call, result, log, engine >>

Call(op, args) == [ op |-> op, args |-> args ]
GodotPrint(msg, args) == [ level |-> "print", msg |-> msg, args |-> args ]
GodotError(msg) == [ level |-> "error", msg |-> msg, args |-> << >> ]
EngineCall(fn, args) == [ fn |-> fn, args |-> args ]

\* Variant: the diagnostic written with godot_print! instead of godot_error!.
NotInitializedAsPrint == GodotPrint("MeiGalaxy not initialized", << >>)

NotInitialized == GodotError("MeiGalaxy not initialized")

\* INode::init
Init ==
    /\ seed = 0
    /\ api = None
    /\ nextInst = 1
    /\ call = Call("init", << >>)
    /\ result = Unit
    /\ log = << >>
    /\ engine = << >>

\* INode::ready
Ready ==
    /\ nextInst <= MaxInst
    /\ api' = Some(New(nextInst, AsU64(seed)))
    /\ nextInst' = nextInst + 1
    /\ call' = Call("ready", << >>)
    /\ result' = Unit
    /\ log' = << GodotPrint("MeiGalaxy initialized with seed", << seed >>) >>
    /\ engine' = << >>
    /\ UNCHANGED seed

\* #[var] seed: the generated property setter
SetSeed ==
    \E s \in SeedInputs :
        /\ seed' = s
        /\ call' = Call("set_seed", << s >>)
        /\ result' = Unit
        /\ log' = << >>
        /\ engine' = << >>
        /\ UNCHANGED << api, nextInst >>

\* #[var] seed: the generated property getter
GetSeed ==
    /\ call' = Call("get_seed", << >>)
    /\ result' = seed
    /\ log' = << >>
    /\ engine' = << >>
    /\ UNCHANGED << seed, api, nextInst >>

\* MeiGalaxy::set_galaxy_seed
SetGalaxySeed ==
    \E s \in SeedInputs :
        /\ nextInst <= MaxInst
        /\ seed' = s
        /\ api' = Some(New(nextInst, AsU64(s)))
        /\ nextInst' = nextInst + 1
        /\ call' = Call("set_galaxy_seed", << s >>)
        /\ result' = Unit
        /\ log' = << GodotPrint("MeiGalaxy seed changed to", << s >>) >>
        /\ engine' = << >>

\* MeiGalaxy::load_config
LoadConfig ==
    \E path \in ConfigPaths : \E out \in LoadFromFile(path) :
        /\ call' = Call("load_config", << path >>)
        /\ result' = Unit
        /\ engine' = << >>
        /\ UNCHANGED seed
        /\ IF out.panicked
           THEN /\ log' = << GodotError("panic in load_config") >>
                /\ UNCHANGED << api, nextInst >>
           ELSE /\ nextInst <= MaxInst
                /\ api' = Some(NewWithConfig(nextInst, AsU64(seed), out.config))
                /\ nextInst' = nextInst + 1
                /\ log' = << GodotPrint("MeiGalaxy config loaded from",
                                << path, out.config.nearby_max_radius,
                                   out.config.structure_block_size >>) >>

\* Variant: the field is assigned on a copy that becomes another instance.
WithConfigOnCopy(a, field, value) ==
    [ a EXCEPT !.inst = @ + 1, !.config = [ @ EXCEPT ![field] = value ] ]

\* The bound engine with one field of generator.config assigned in place.
WithConfig(a, field, value) == [ a EXCEPT !.config = [ @ EXCEPT ![field] = value ] ]

\* MeiGalaxy::set_nearby_max_radius
SetNearbyMaxRadius ==
    \E radius \in MaxRadiusInputs :
        /\ call' = Call("set_nearby_max_radius", << radius >>)
        /\ result' = Unit
        /\ engine' = << >>
        /\ UNCHANGED << seed, nextInst >>
        /\ IF IsSome(api)
           THEN /\ api' = Some(WithConfig(Unwrap(api), "nearby_max_radius", radius))
                /\ log' = << GodotPrint("MeiGalaxy nearby_max_radius set to", << radius >>) >>
           ELSE /\ api' = api
                /\ log' = << >>

\* Variant: the getter answers the default whatever is bound.
GetNearbyMaxRadiusDefaultOnly ==
    /\ call' = Call("get_nearby_max_radius", << >>)
    /\ result' = DefaultNearbyMaxRadius
    /\ log' = << >>
    /\ engine' = << >>
    /\ UNCHANGED << seed, api, nextInst >>

\* MeiGalaxy::get_nearby_max_radius
GetNearbyMaxRadius ==
    /\ call' = Call("get_nearby_max_radius", << >>)
    /\ result' = IF IsSome(api) THEN Unwrap(api).config.nearby_max_radius
                 ELSE DefaultNearbyMaxRadius
    /\ log' = << >>
    /\ engine' = << >>
    /\ UNCHANGED << seed, api, nextInst >>

\* Variant: on an unbound session the setter first binds a default engine.
SetStructureBlockSizeBinding ==
    \E size \in BlockSizeInputs :
        /\ call' = Call("set_structure_block_size", << size >>)
        /\ result' = Unit
        /\ engine' = << >>
        /\ UNCHANGED seed
        /\ log' = << GodotPrint("MeiGalaxy structure_block_size set to", << size >>) >>
        /\ IF IsSome(api)
           THEN /\ api' = Some(WithConfig(Unwrap(api), "structure_block_size", size))
                /\ nextInst' = nextInst
           ELSE /\ nextInst <= MaxInst
                /\ api' = Some(WithConfig(New(nextInst, AsU64(seed)),
                                          "structure_block_size", size))
                /\ nextInst' = nextInst + 1

\* MeiGalaxy::set_structure_block_size
SetStructureBlockSize ==
    \E size \in BlockSizeInputs :
        /\ call' = Call("set_structure_block_size", << size >>)
        /\ result' = Unit
        /\ engine' = << >>
        /\ UNCHANGED << seed, nextInst >>
        /\ IF IsSome(api)
           THEN /\ api' = Some(WithConfig(Unwrap(api), "structure_block_size", size))
                /\ log' = << GodotPrint("MeiGalaxy structure_block_size set to", << size >>) >>
           ELSE /\ api' = api
                /\ log' = << >>

\* MeiGalaxy::set_structure_samples_per_block
SetStructureSamplesPerBlock ==
    \E samples \in SamplesInputs :
        /\ call' = Call("set_structure_samples_per_block", << samples >>)
        /\ result' = Unit
        /\ engine' = << >>
        /\ UNCHANGED << seed, nextInst >>
        /\ IF IsSome(api)
           THEN /\ api' = Some(WithConfig(Unwrap(api), "structure_samples_per_block",
                                          AsU64(samples)))
                /\ log' = << GodotPrint("MeiGalaxy structure_samples_per_block set to",
                                        << samples >>) >>
           ELSE /\ api' = api
                /\ log' = << >>

\* MeiGalaxy::get_galaxy_radius
GetGalaxyRadius ==
    /\ call' = Call("get_galaxy_radius", << >>)
    /\ result' = IF IsSome(api) THEN Unwrap(api).radius ELSE 0
    /\ log' = << >>
    /\ engine' = << >>
    /\ UNCHANGED << seed, api, nextInst >>

(***************************************************************************)
(* The columnar projections.                                               *)
(***************************************************************************)
Vector3(x, y, z) == [x |-> x, y |-> y, z |-> z]

\* The six packed arrays, as created empty before the loop.
EmptyColumns ==
    [ positions    |-> << >>,
      ids          |-> << >>,
      luminosities |-> << >>,
      temperatures |-> << >>,
      masses       |-> << >>,
      star_types   |-> << >> ]

\* Variant: the identifier is pushed at the front of its array.
StructurePushIdsFront(cols, star) ==
    [ positions    |-> Append(cols.positions,
                         Vector3(AsF32(star.position.x), AsF32(star.position.y),
                                 AsF32(star.position.z))),
      ids          |-> << AsI64(star.id) >> \o cols.ids,
      luminosities |-> Append(cols.luminosities, AsF32(StarLuminosity(star))),
      temperatures |-> Append(cols.temperatures, AsF32(StarTemperature(star))),
      masses       |-> Append(cols.masses, AsF32(star.mass)),
      star_types   |-> Append(cols.star_types, StarTypeDebug(star.star_type)) ]

\* One turn of the loop of get_structure.
StructurePush(cols, star) ==
    [ positions    |-> Append(cols.positions,
                         Vector3(AsF32(star.position.x), AsF32(star.position.y),
                                 AsF32(star.position.z))),
      ids          |-> Append(cols.ids, AsI64(star.id)),
      luminosities |-> Append(cols.luminosities, AsF32(StarLuminosity(star))),
      temperatures |-> Append(cols.temperatures, AsF32(StarTemperature(star))),
      masses       |-> Append(cols.masses, AsF32(star.mass)),
      star_types   |-> Append(cols.star_types, StarTypeDebug(star.star_type)) ]

\* The loop of get_structure over the engine's stars, in their order.
RECURSIVE StructureColumns(_)
StructureColumns(stars) ==
    IF stars = << >> THEN EmptyColumns
    ELSE StructurePush(StructureColumns(SubSeq(stars, 1, Len(stars) - 1)),
                       stars[Len(stars)])

\* Variant: the cap is off by one.
StructureCapOffByOne(max_stars) == AsU64(max_stars + 1)

\* The cap get_structure hands to the engine: `max_stars as usize`.
StructureCap(max_stars) == AsU64(max_stars)

\* Variant: the estimate is taken at another radius.
StructureEstimateRadiusTenth == EstimateReferenceRadius \div 10

\* The reference radius of the estimate in get_structure.
StructureEstimateRadius == EstimateReferenceRadius

\* The Dictionary get_structure returns on a bound session.
StructureResult(a, max_stars) ==
    LET stars == GeneratorGetGalacticStructure(a, StructureCap(max_stars))
        count == Len(stars)
        cols  == StructureColumns(stars)
        estimated_total == GeneratorEstimateTotalStars(a, StructureEstimateRadius)
    IN  [ positions    |-> cols.positions,
          ids          |-> cols.ids,
          luminosities |-> cols.luminosities,
          temperatures |-> cols.temperatures,
          masses       |-> cols.masses,
          star_types   |-> cols.star_types,
          count        |-> AsI64(count),
          estimated_total_stars |-> F64AsI64(estimated_total) ]

\* MeiGalaxy::get_structure
GetStructure ==
    \E max_stars \in MaxStarsInputs :
        /\ call' = Call("get_structure", << max_stars >>)
        /\ UNCHANGED << seed, api, nextInst >>
        /\ IF ~IsSome(api)
           THEN /\ log' = << NotInitialized >>
                /\ result' = EmptyDictionary
                /\ engine' = << >>
           ELSE LET a == Unwrap(api)
                    count == Len(GeneratorGetGalacticStructure(a, StructureCap(max_stars)))
                IN  /\ result' = StructureResult(a, max_stars)
                    /\ engine' = << EngineCall("get_galactic_structure",
                                               << StructureCap(max_stars) >>),
                                    EngineCall("estimate_total_stars",
                                               << StructureEstimateRadius >>) >>
                    /\ log' = << GodotPrint("Generated stars (packed), estimated total",
                                    << count, GeneratorEstimateTotalStars(a, StructureEstimateRadius) >>) >>

\* One turn of the loop of get_nearby_stars_limited.
NearbyPush(cols, star) ==
    [ positions    |-> Append(cols.positions,
                         Vector3(AsF32(star.position.x), AsF32(star.position.y),
                                 AsF32(star.position.z))),
      ids          |-> Append(cols.ids, AsI64(star.id)),
      luminosities |-> Append(cols.luminosities, AsF32(StarTypeLuminosity(star.star_type))),
      temperatures |-> Append(cols.temperatures, AsF32(StarTypeTemperature(star.star_type))),
      masses       |-> Append(cols.masses, AsF32(star.mass)),
      star_types   |-> Append(cols.star_types, StarTypeDebug(star.star_type)) ]

\* The loop of get_nearby_stars_limited over the engine's stars, in their order.
RECURSIVE NearbyColumns(_)
NearbyColumns(stars) ==
    IF stars = << >> THEN EmptyColumns
    ELSE NearbyPush(NearbyColumns(SubSeq(stars, 1, Len(stars) - 1)),
                    stars[Len(stars)])

\* let clamped_radius = radius.min(api.generator.config.nearby_max_radius)
ClampedRadius(a, radius) == F64Min(radius, a.config.nearby_max_radius)

\* The radius get_nearby_stars_limited hands to generator.get_nearby_stars:
\* the argument `radius` itself; clamped_radius is used in the log line only.
ForwardedRadius(a, radius) == radius

\* The cap get_nearby_stars_limited hands to the engine: `max_stars as usize`.
NearbyCap(max_stars) == AsU64(max_stars)

\* The stars get_nearby_stars_limited receives from the engine.
NearbyStars(a, position, radius, max_stars) ==
    GeneratorGetNearbyStars(a, position, ForwardedRadius(a, radius), NearbyCap(max_stars))

\* The Dictionary get_nearby_stars_limited returns on a bound session.
NearbyResult(a, position, radius, max_stars) ==
    LET stars == NearbyStars(a, position, radius, max_stars)
        count == Len(stars)
        cols  == NearbyColumns(stars)
    IN  [ positions    |-> cols.positions,
          ids          |-> cols.ids,
          luminosities |-> cols.luminosities,
          temperatures |-> cols.temperatures,
          masses       |-> cols.masses,
          star_types   |-> cols.star_types,
          count        |-> AsI64(count) ]

\* The body of get_nearby_stars_limited, called as method op.
NearbyStarsLimitedBody(op, args, c, radius, max_stars) ==
    /\ call' = Call(op, args)
    /\ UNCHANGED << seed, api, nextInst >>
    /\ IF ~IsSome(api)
       THEN /\ log' = << NotInitialized >>
            /\ result' = EmptyDictionary
            /\ engine' = << >>
       ELSE LET a == Unwrap(api)
                count == Len(NearbyStars(a, c, radius, max_stars))
            IN  /\ result' = NearbyResult(a, c, radius, max_stars)
                /\ engine' = << EngineCall("get_nearby_stars",
                                  << c, ForwardedRadius(a, radius), NearbyCap(max_stars) >>) >>
                /\ log' = << GodotPrint("Found nearby stars at radius (clamped to)",
                                << count, c.x, c.y, c.z, radius,
                                   ClampedRadius(a, radius) >>) >>

\* MeiGalaxy::get_nearby_stars_limited
GetNearbyStarsLimited ==
    \E c \in Centers : \E radius \in RadiusInputs : \E max_stars \in MaxStarsInputs :
        NearbyStarsLimitedBody("get_nearby_stars_limited",
                               << c.x, c.y, c.z, radius, max_stars >>,
                               c, radius, max_stars)

\* MeiGalaxy::get_nearby_stars
GetNearbyStars ==
    \E c \in Centers : \E radius \in RadiusInputs :
        NearbyStarsLimitedBody("get_nearby_stars", << c.x, c.y, c.z, radius >>,
                               c, radius, DefaultNearbyMaxStars)

(***************************************************************************)
(* The generation engine: star systems.                                    *)
(***************************************************************************)
\* The k-th companion of a system's primary star.
Companion(primary, k) ==
    [ id        |-> (primary.id + 1000 * k) % U64Mod,
      position  |-> Vec3(primary.position.x + k, primary.position.y, primary.position.z),
      mass      |-> 1 + ((primary.mass + k) % 3),
      star_type |-> (primary.star_type + k) % NumStarTypes ]

Moon(t, k) == [ moon_type |-> t % 7, mass |-> k, position |-> Vec3(384 * k, 0, 1) ]

Planet(t, k, nmoons) ==
    [ planet_type |-> t % 14,
      mass        |-> 3 * k,
      position    |-> Vec3(k, 0, 0),
      moons       |-> [ m \in 1..nmoons |-> Moon(t + m, m) ] ]

Asteroid(t, k) ==
    [ asteroid_type |-> t % 3, mass |-> k, diameter |-> 900 + k,
      orbital_radius |-> 3, position |-> Vec3(3, k, 0) ]

AsteroidBelt(t) ==
    [ name |-> "Main Belt", inner_radius |-> 2, outer_radius |-> 4, total_mass |-> 5,
      asteroid_count |-> 1000 + t,
      largest_bodies |-> [ k \in 1..2 |-> Asteroid(t + k, k) ] ]

Comet(t, k) ==
    [ comet_type |-> t % 3, mass |-> k, nucleus_diameter |-> 10 + k,
      orbital_radius |-> 30000, eccentricity |-> 1, position |-> Vec3(30000, k, 0) ]

OortCloud(t) ==
    [ inner_radius |-> 2000, outer_radius |-> 100000,
      estimated_population |-> U64Mod - 1 - t, total_mass |-> 7,
      notable_comets |-> [ k \in 1..(1 + (t % 2)) |-> Comet(t + k, k) ] ]

StellarComponent(indices, mass, t) ==
    [ star_indices |-> indices,
      barycenter |-> Vec3(t, 0, 0),
      combined_mass |-> mass,
      internal_separation |-> Len(indices) - 1,
      is_interacting |-> Len(indices) > 1,
      planet_inner_limit |-> 1,
      planet_outer_limit |-> 50,
      frost_line |-> 5,
      habitable_zone_inner |-> 1,
      habitable_zone_outer |-> 2,
      inner_planets |-> [ k \in 1..(t % 2) |-> Planet(t + k, k, 1) ],
      outer_planets |-> [ k \in 1..1 |-> Planet(t + 9, 5 + k, 2) ] ]

\* The stellar configuration of the system around the i-th star.
Configuration(i) ==
    CASE i % 5 = 1 -> [ variant |-> "Single" ]
      [] i % 5 = 2 -> [ variant |-> "CloseBinary", separation_au |-> 2, is_contact |-> TRUE ]
      [] i % 5 = 3 -> [ variant |-> "HierarchicalTriple", inner_separation_au |-> 1,
                        outer_separation_au |-> 40 ]
      [] i % 5 = 4 -> [ variant |-> "WideBinary", separation_au |-> 900 ]
      [] OTHER     -> [ variant |-> "UnstableTriple" ]

\* The stars of the system around the i-th star: one to three.
SystemStars(primary, i) ==
    CASE i % 5 = 1 -> << primary >>
      [] i % 5 \in {2, 4} -> << primary, Companion(primary, 1) >>
      [] OTHER -> << primary, Companion(primary, 1), Companion(primary, 2) >>

SystemComponents(primary, i) ==
    CASE i % 5 = 1 -> << StellarComponent(<< 0 >>, primary.mass, i) >>
      [] i % 5 = 2 -> << StellarComponent(<< 0, 1 >>, primary.mass + 1, i) >>
      [] i % 5 = 4 -> << StellarComponent(<< 0 >>, primary.mass, i),
                         StellarComponent(<< 1 >>, 1, i + 1) >>
      [] OTHER -> << StellarComponent(<< 0, 1 >>, primary.mass + 1, i),
                     StellarComponent(<< 2 >>, 1, i + 1) >>

\* The index of the star a query names: its identifier in decimal.
StarIndex(a, star_id) ==
    CHOOSE i \in 1..NumStars : ToString(Catalog(a.seed)[i].id) = star_id

\* GalaxyAPI::get_star_system(query)
ApiGetStarSystem(a, query) ==
    LET i == StarIndex(a, query.star_id)
        primary == Catalog(a.seed)[i]
        comps == SystemComponents(primary, i)
    IN  [ position |-> primary.position,
          stars |-> SystemStars(primary, i),
          configuration |-> Configuration(i),
          stellar_components |-> comps,
          inner_planets |-> IF i % 5 = 1 THEN comps[1].inner_planets ELSE << >>,
          outer_planets |-> IF i % 5 = 1 THEN comps[1].outer_planets ELSE << >>,
          asteroid_belts |-> [ k \in 1..(i % 2) |-> AsteroidBelt(i + k) ],
          oort_cloud |-> IF (a.seed + i) % 2 = 0 THEN Some(OortCloud(i)) ELSE None,
          frost_line |-> 5,
          habitable_zone_inner |-> 1,
          habitable_zone_outer |-> 2 ]

\* The identifiers a caller can ask about: those of the galaxy of seed s.
StarIds(s) == { ToString(Catalog(s)[i].id) : i \in 1..NumStars }

(***************************************************************************)
(* The hierarchical projection.                                            *)
(***************************************************************************)
PosDict(p) == [ x |-> p.x, y |-> p.y, z |-> p.z ]

\* moon_to_dict: the match on moon.moon_type
MoonTypeStr(t) ==
    CASE t = 0 -> "Rocky"
      [] t = 1 -> "Icy"
      [] t = 2 -> "IceRock"
      [] t = 3 -> "Ocean"
      [] t = 4 -> "Volcanic"
      [] t = 5 -> "Captured"
      [] t = 6 -> "Atmospheric"

\* moon_to_dict
MoonToDict(moon) ==
    [ moon_type      |-> MoonTypeStr(moon.moon_type),
      mass           |-> moon.mass,
      orbital_radius |-> moon.position.x,
      position       |-> PosDict(moon.position) ]

\* planet_to_dict: the match on planet.planet_type
PlanetTypeStr(t) ==
    CASE t = 0 -> "Dwarf"
      [] t = 1 -> "Terrestrial"
      [] t = 2 -> "SuperEarth"
      [] t = 3 -> "Desert"
      [] t = 4 -> "Ocean"
      [] t = 5 -> "Lava"
      [] t = 6 -> "MiniNeptune"
      [] t = 7 -> "SubNeptune"
      [] t = 8 -> "IceGiant"
      [] t = 9 -> "GasGiant"
      [] t = 10 -> "HotJupiter"
      [] t = 11 -> "Chthonian"
      [] t = 12 -> "Carbon"
      [] t = 13 -> "Coreless"

\* planet_to_dict
PlanetToDict(planet) ==
    [ planet_type    |-> PlanetTypeStr(planet.planet_type),
      mass           |-> planet.mass,
      orbital_radius |-> planet.position.x,
      position       |-> PosDict(planet.position),
      moons          |-> [ i \in 1..Len(planet.moons) |-> MoonToDict(planet.moons[i]) ],
      moon_count     |-> AsI64(Len(planet.moons)) ]

\* asteroid_to_dict: the match on asteroid.asteroid_type
AsteroidTypeStr(t) ==
    CASE t = 0 -> "Carbonaceous"
      [] t = 1 -> "Silicate"
      [] t = 2 -> "Metallic"

\* asteroid_to_dict
AsteroidToDict(asteroid) ==
    [ asteroid_type  |-> AsteroidTypeStr(asteroid.asteroid_type),
      mass           |-> asteroid.mass,
      diameter       |-> asteroid.diameter,
      orbital_radius |-> asteroid.orbital_radius,
      position       |-> PosDict(asteroid.position) ]

\* asteroid_belt_to_dict
AsteroidBeltToDict(belt) ==
    [ name           |-> belt.name,
      inner_radius   |-> belt.inner_radius,
      outer_radius   |-> belt.outer_radius,
      total_mass     |-> belt.total_mass,
      asteroid_count |-> AsI64(belt.asteroid_count),
      largest_bodies |-> [ i \in 1..Len(belt.largest_bodies) |-> AsteroidToDict(belt.largest_bodies[i]) ] ]

\* comet_to_dict: the match on comet.comet_type
CometTypeStr(t) ==
    CASE t = 0 -> "ShortPeriod"
      [] t = 1 -> "LongPeriod"
      [] t = 2 -> "Hyperbolic"

\* comet_to_dict
CometToDict(comet) ==
    [ comet_type       |-> CometTypeStr(comet.comet_type),
      mass             |-> comet.mass,
      nucleus_diameter |-> comet.nucleus_diameter,
      orbital_radius   |-> comet.orbital_radius,
      eccentricity     |-> comet.eccentricity,
      position         |-> PosDict(comet.position) ]

\* oort_cloud_to_dict
OortCloudToDict(oort) ==
    [ inner_radius         |-> oort.inner_radius,
      outer_radius         |-> oort.outer_radius,
      estimated_population |-> AsI64(oort.estimated_population),
      total_mass           |-> oort.total_mass,
      notable_comets       |-> [ i \in 1..Len(oort.notable_comets) |-> CometToDict(oort.notable_comets[i]) ] ]

\* get_star_system: one entry of `stars`
SystemStarDict(star) ==
    [ id          |-> AsI64(star.id),
      star_type   |-> StarTypeDebug(star.star_type),
      mass        |-> star.mass,
      luminosity  |-> StarTypeLuminosity(star.star_type),
      temperature |-> StarTypeTemperature(star.star_type),
      position    |-> PosDict(star.position) ]

\* get_star_system: the match on system.configuration
ConfigurationDict(c) ==
    CASE c.variant = "Single" -> [ type |-> "Single" ]
      [] c.variant = "CloseBinary" ->
            [ type |-> "CloseBinary", separation_au |-> c.separation_au,
              is_contact |-> c.is_contact ]
      [] c.variant = "WideBinary" ->
            [ type |-> "WideBinary", separation_au |-> c.separation_au ]
      [] c.variant = "HierarchicalTriple" ->
            [ type |-> "HierarchicalTriple",
              inner_separation_au |-> c.inner_separation_au,
              outer_separation_au |-> c.outer_separation_au ]
      [] c.variant = "UnstableTriple" -> [ type |-> "UnstableTriple" ]

\* get_star_system: one entry of `stellar_components`
ComponentDict(component) ==
    [ star_indices         |-> [ i \in 1..Len(component.star_indices) |-> AsI64(component.star_indices[i]) ],
      barycenter           |-> PosDict(component.barycenter),
      combined_mass        |-> component.combined_mass,
      internal_separation  |-> component.internal_separation,
      is_interacting       |-> component.is_interacting,
      planet_inner_limit   |-> component.planet_inner_limit,
      planet_outer_limit   |-> component.planet_outer_limit,
      frost_line           |-> component.frost_line,
      habitable_zone_inner |-> component.habitable_zone_inner,
      habitable_zone_outer |-> component.habitable_zone_outer,
      inner_planets        |-> [ i \in 1..Len(component.inner_planets) |-> PlanetToDict(component.inner_planets[i]) ],
      outer_planets        |-> [ i \in 1..Len(component.outer_planets) |-> PlanetToDict(component.outer_planets[i]) ] ]

\* Variant: the key is set in every case, to an empty Dictionary when absent.
SetOortCloudAlways(dict, oort_cloud) ==
    dict @@ [ oort_cloud |-> IF IsSome(oort_cloud)
                             THEN OortCloudToDict(Unwrap(oort_cloud))
                             ELSE EmptyDictionary ]

\* get_star_system: if let Some(oort) = &system.oort_cloud { result.set(..) }
SetOortCloud(dict, oort_cloud) ==
    IF IsSome(oort_cloud)
    THEN dict @@ [ oort_cloud |-> OortCloudToDict(Unwrap(oort_cloud)) ]
    ELSE dict

\* The Dictionary get_star_system builds from the engine's system.
SystemDict(star_id, system) ==
    SetOortCloud(
        [ star_id              |-> star_id,
          frost_line           |-> system.frost_line,
          habitable_zone_inner |-> system.habitable_zone_inner,
          habitable_zone_outer |-> system.habitable_zone_outer,
          position             |-> PosDict(system.position),
          stars                |-> [ i \in 1..Len(system.stars) |-> SystemStarDict(system.stars[i]) ],
          configuration        |-> ConfigurationDict(system.configuration),
          stellar_components   |-> [ i \in 1..Len(system.stellar_components) |-> ComponentDict(system.stellar_components[i]) ],
          inner_planets        |-> [ i \in 1..Len(system.inner_planets) |-> PlanetToDict(system.inner_planets[i]) ],
          outer_planets        |-> [ i \in 1..Len(system.outer_planets) |-> PlanetToDict(system.outer_planets[i]) ],
          asteroid_belts       |-> [ i \in 1..Len(system.asteroid_belts) |-> AsteroidBeltToDict(system.asteroid_belts[i]) ] ],
        system.oort_cloud)

\* get_star_system: the query it hands to the engine
SystemQuery(star_id) == [ star_id |-> star_id, position |-> None ]

RECURSIVE SumMoons(_)
SumMoons(planets) ==
    IF planets = << >> THEN 0
    ELSE Len(planets[1].moons) + SumMoons(Tail(planets))

\* MeiGalaxy::get_star_system
GetStarSystem ==
    \E star_id \in (IF IsSome(api) THEN StarIds(Unwrap(api).seed) ELSE StarIds(AsU64(seed))) :
        /\ call' = Call("get_star_system", << star_id >>)
        /\ UNCHANGED << seed, api, nextInst >>
        /\ IF ~IsSome(api)
           THEN /\ log' = << NotInitialized >>
                /\ result' = EmptyDictionary
                /\ engine' = << >>
           ELSE LET a == Unwrap(api)
                    query == SystemQuery(star_id)
                    system == ApiGetStarSystem(a, query)
                    total_planets == Len(system.inner_planets) + Len(system.outer_planets)
                    total_moons == SumMoons(system.inner_planets \o system.outer_planets)
                IN  /\ result' = SystemDict(star_id, system)
                    /\ engine' = << EngineCall("get_star_system", << query >>) >>
                    /\ log' = << GodotPrint("System has stars, planets, moons, asteroid belts",
                                    << Len(system.stars), total_planets, total_moons,
                                       Len(system.asteroid_belts) >>) >>

(***************************************************************************)
(* The specification: any sequence of calls on one node.                   *)
(***************************************************************************)
Next ==
    \/ Ready
    \/ SetSeed
    \/ GetSeed
    \/ SetGalaxySeed
    \/ LoadConfig
    \/ SetNearbyMaxRadius
    \/ GetNearbyMaxRadius
    \/ SetStructureBlockSize
    \/ SetStructureSamplesPerBlock
    \/ GetStructure
    \/ GetGalaxyRadius
    \/ GetNearbyStars
    \/ GetNearbyStarsLimited
    \/ GetStarSystem

Spec == Init /\ [][Next]_vars

(***************************************************************************)
(* Properties.                                                             *)
(***************************************************************************)
Bound == IsSome(api)
QueryOps == { "get_structure", "get_nearby_stars", "get_nearby_stars_limited",
              "get_star_system" }
NearbyOps == { "get_nearby_stars", "get_nearby_stars_limited" }
ConfigSetterOps == { "set_nearby_max_radius", "set_structure_block_size",
                     "set_structure_samples_per_block" }
SetterOps == { "set_galaxy_seed", "load_config" } \cup ConfigSetterOps

\* C1: on a bound session, the radius get_nearby_stars_limited hands to the
\* engine's get_nearby_stars is min(radius, nearby_max_radius).
C1_ForwardedRadiusIsClamped ==
    (call.op = "get_nearby_stars_limited" /\ Bound) =>
        /\ Len(engine) = 1
        /\ engine[1].fn = "get_nearby_stars"
        /\ engine[1].args[2] = F64Min(call.args[4], Unwrap(api).config.nearby_max_radius)

\* C2: on an unbound session every query returns an empty result, writes the
\* not-initialized error, makes no engine call, and leaves the session
\* unbound with its seed unchanged.
C2_UnboundQueriesFailSoft ==
    [][ (~Bound /\ call'.op \in QueryOps) =>
            /\ result' = EmptyDictionary
            /\ Len(log') = 1
            /\ log'[1].level = "error"
            /\ log'[1].msg = "MeiGalaxy not initialized"
            /\ engine' = << >>
            /\ api' = None
            /\ seed' = seed ]_vars

C2_Witness ==
    /\ ~Bound
    /\ call.op = "get_nearby_stars"
    /\ result = EmptyDictionary
    /\ Len(log) = 1 /\ log[1].level = "error"

\* A step constructs a new engine instance and binds the session to it.
ReboundFresh ==
    /\ IsSome(api')
    /\ Unwrap(api').inst >= nextInst
    /\ nextInst' > Unwrap(api').inst

C4_FailedLoadKeepsBinding ==
    [][ (call'.op = "load_config" /\ call'.args[1] \in BadPaths) =>
            /\ api' = api
            /\ Len(log') = 1
            /\ log'[1].level = "error" ]_vars

\* The lengths of the six arrays of a columnar result.
ColumnLengths(r) ==
    { Len(r.positions), Len(r.ids), Len(r.luminosities), Len(r.temperatures),
      Len(r.masses), Len(r.star_types) }

\* C5: get_structure(n), n >= 0, on a bound session returns at most n stars,
\* and count is the number of stars in the returned arrays.
C5_StructureAtMostNAndCountExact ==
    (call.op = "get_structure" /\ Bound /\ call.args[1] >= 0) =>
        /\ ColumnLengths(result) = { result.count }
        /\ result.count <= call.args[1]

C5_Witness ==
    /\ call.op = "get_structure"
    /\ Bound
    /\ call.args[1] = 2
    /\ result.count = 2

\* The list of stars the engine returned to the last columnar query.
EngineStars ==
    IF call.op = "get_structure"
    THEN GeneratorGetGalacticStructure(Unwrap(api), engine[1].args[1])
    ELSE GeneratorGetNearbyStars(Unwrap(api), engine[1].args[1], engine[1].args[2],
                                 engine[1].args[3])

\* C6: the six arrays of a columnar result have the length count, and their
\* i-th entries are all derived from the i-th star of the engine's list.
C6_ColumnsAlignedInEngineOrder ==
    (call.op \in NearbyOps \cup { "get_structure" } /\ Bound) =>
        /\ ColumnLengths(result) = { result.count }
        /\ result.count = Len(EngineStars)
        /\ \A i \in 1..Len(EngineStars) :
              LET star == EngineStars[i]
              IN  /\ result.ids[i] = AsI64(star.id)
                  /\ result.positions[i] =
                        Vector3(AsF32(star.position.x), AsF32(star.position.y),
                                AsF32(star.position.z))
                  /\ result.masses[i] = AsF32(star.mass)
                  /\ result.star_types[i] = StarTypeDebug(star.star_type)
                  /\ result.luminosities[i] \in
                        { AsF32(StarLuminosity(star)),
                          AsF32(StarTypeLuminosity(star.star_type)) }
                  /\ result.temperatures[i] \in
                        { AsF32(StarTemperature(star)),
                          AsF32(StarTypeTemperature(star.star_type)) }

C6_Witness ==
    /\ call.op = "get_structure"
    /\ Bound
    /\ result.count >= 3
    /\ result.ids[1] # result.ids[2]
    /\ result.ids[2] < 0

\* C7: get_structure(0) on a bound session returns count 0 and six empty
\* arrays, and still carries estimated_total_stars: the engine's estimate at
\* the reference radius 500, which is not negative.
C7_EmptyStructureStillEstimates ==
    (call.op = "get_structure" /\ Bound /\ call.args[1] = 0) =>
        /\ result.count = 0
        /\ ColumnLengths(result) = { 0 }
        /\ "estimated_total_stars" \in DOMAIN result
        /\ result.estimated_total_stars =
              F64AsI64(GeneratorEstimateTotalStars(Unwrap(api), 500))
        /\ result.estimated_total_stars >= 0
        /\ \E k \in 1..Len(engine) :
              engine[k] = EngineCall("estimate_total_stars", << 500 >>)

C7_Witness ==
    /\ call.op = "get_structure"
    /\ Bound
    /\ call.args[1] = 0
    /\ result.count = 0
    /\ result.estimated_total_stars > 0

\* C8: the record of get_star_system has the key oort_cloud exactly when the
\* engine's system has an Oort cloud.
C8_OortCloudKeyIffPresent ==
    (call.op = "get_star_system" /\ Bound) =>
        ( "oort_cloud" \in DOMAIN result
            <=> IsSome(ApiGetStarSystem(Unwrap(api), engine[1].args[1]).oort_cloud) )

C8_Witness ==
    /\ call.op = "get_star_system"
    /\ Bound
    /\ "oort_cloud" \notin DOMAIN result
    /\ "asteroid_belts" \in DOMAIN result

\* The engine's star that an identifier of a columnar result names.
StarOfId(id) ==
    CHOOSE star \in { Catalog(Unwrap(api).seed)[i] : i \in 1..NumStars } :
        AsI64(star.id) = id

\* C9: a nearby query (c, r, n), n >= 0, returns only stars within
\* min(r, nearby_max_radius) of c, at most n of them, nearest first with
\* ties in the order of the identifiers.
C9_NearbyWithinClampedRadiusSorted ==
    (call.op \in NearbyOps /\ Bound /\ engine[1].args[3] <= I64Max) =>
        LET c == engine[1].args[1]
            m == F64Min(call.args[4], Unwrap(api).config.nearby_max_radius)
            n == Len(result.ids)
        IN  /\ n <= engine[1].args[3]
            /\ \A i \in 1..n :
                  Dist2(StarOfId(result.ids[i]).position, c) <= m * m
            /\ \A i \in 1..(n - 1) :
                  Nearer(c, StarOfId(result.ids[i]), StarOfId(result.ids[i + 1]))

\* C10: a star gets the same luminosity and the same temperature from
\* get_structure, from get_nearby_stars_limited and from the stars list of
\* get_star_system (the last narrowed to f32 for the comparison).
C10_SameLuminosityInEveryProjection ==
    (call.op = "get_structure" /\ Bound) =>
        \A i \in 1..Len(result.ids) :
            /\ \A c \in Centers : \A r \in RadiusInputs :
                  LET near == NearbyResult(Unwrap(api), c, r, DefaultNearbyMaxStars)
                  IN  \A j \in 1..Len(near.ids) :
                         near.ids[j] = result.ids[i] =>
                            /\ near.luminosities[j] = result.luminosities[i]
                            /\ near.temperatures[j] = result.temperatures[i]
            /\ \A star_id \in StarIds(Unwrap(api).seed) :
                  LET sys == SystemDict(star_id,
                                 ApiGetStarSystem(Unwrap(api), SystemQuery(star_id)))
                  IN  \A j \in 1..Len(sys.stars) :
                         sys.stars[j].id = result.ids[i] =>
                            /\ AsF32(sys.stars[j].luminosity) = result.luminosities[i]
                            /\ AsF32(sys.stars[j].temperature) = result.temperatures[i]

\* C11: a cap max_stars <= 0 reaches the engine as the cap 0, and the query
\* returns count 0; a negative max_stars never becomes a large positive cap.
C11_NonPositiveCapIsZero ==
    ( /\ call.op \in { "get_structure", "get_nearby_stars_limited" }
      /\ Bound
      /\ call.args[Len(call.args)] <= 0 ) =>
        /\ engine[1].args[Len(engine[1].args)] = 0
        /\ result.count = 0

\* C12: get_nearby_max_radius returns 16.0 on an unbound session and the
\* bound engine's config.nearby_max_radius otherwise; get_galaxy_radius
\* returns 0.0 on an unbound session and the bound engine's galaxy radius
\* otherwise; neither changes the seed or the binding.
C12_GettersReadBindingOrDefault ==
    [][ /\ call'.op = "get_nearby_max_radius" =>
              /\ result' = IF IsSome(api) THEN Unwrap(api).config.nearby_max_radius ELSE 16
              /\ seed' = seed /\ api' = api
        /\ call'.op = "get_galaxy_radius" =>
              /\ result' = IF IsSome(api) THEN Unwrap(api).radius ELSE 0
              /\ seed' = seed /\ api' = api ]_vars

C12_Witness ==
    /\ call.op = "get_nearby_max_radius"
    /\ Bound
    /\ result = 8
    /\ Unwrap(api).config.nearby_max_radius = 8

\* C13: whenever the session is bound, the bound engine was constructed with
\* the session's current seed.
C13_BoundEngineHasSessionSeed ==
    Bound => Unwrap(api).seed = AsU64(seed)

\* What get_nearby_max_radius() returns in the current state.
ObservedNearbyMaxRadius ==
    IF IsSome(api) THEN Unwrap(api).config.nearby_max_radius ELSE DefaultNearbyMaxRadius

\* The methods that set the configuration.
ConfigMutationOps == ConfigSetterOps \cup { "load_config" }

\* C14: set_nearby_max_radius(v), called in any session state, makes
\* get_nearby_max_radius() return v, and so does every later state until
\* the next set_nearby_max_radius or load_config, whatever ready,
\* set_galaxy_seed or query is called in between; the fields of a bound
\* configuration likewise change only by a config setter or load_config.
C14_ConfigSurvivesUntilMutated ==
    [][ /\ call'.op = "set_nearby_max_radius" =>
              ObservedNearbyMaxRadius' = call'.args[1]
        /\ call'.op \notin ConfigMutationOps =>
              /\ ObservedNearbyMaxRadius' = ObservedNearbyMaxRadius
              /\ (IsSome(api) /\ IsSome(api')) =>
                    Unwrap(api').config = Unwrap(api).config ]_vars

\* C15: the session starts unbound with seed 0; it becomes bound only by
\* ready, set_galaxy_seed or load_config; once bound it stays bound; and no
\* config setter takes it from unbound to bound.
C15_BindingStateMachine ==
    /\ (seed = 0 /\ api = None)
    /\ [][ /\ (~IsSome(api) /\ IsSome(api')) =>
                 call'.op \in { "ready", "set_galaxy_seed", "load_config" }
           /\ IsSome(api) => IsSome(api')
           /\ (call'.op \in ConfigSetterOps /\ ~IsSome(api)) => ~IsSome(api') ]_vars

C15_Witness ==
    /\ call.op = "set_structure_block_size"
    /\ ~Bound
    /\ nextInst = 1
    /\ log = << >>

=============================================================================
